---- MODULE Spec2Model ----
(***************************************************************************)
(* Model of the Pro Orchestrator (pro_orchestrator.py): the job registry,  *)
(* the background execution of a workflow, the step executor with its      *)
(* retry loop, the agent invocation adapter and the input resolver.        *)
(*                                                                         *)
(* Python values are tagged records: None, strings, integers and mappings. *)
(* A background task is cut at its suspension points (an agent invocation  *)
(* that is awaited, a backoff sleep); the code between two suspension      *)
(* points runs without interleaving on the event loop and is one action.   *)
(***************************************************************************)
EXTENDS Integers, Sequences, FiniteSets, TLC

\* ------------------------------------------------------------------ bounds
MaxJobs == 2        \* job records created by start_workflow in one run
MaxRetry == 2       \* largest retry value of the generated step specs
MaxIdx == 2         \* largest step index written in an input_path
MaxSteps == 2       \* longest workflow given to the synchronous manager

\* ------------------------------------------------------- Python values
None == [t |-> "none"]
Str(s) == [t |-> "str", v |-> s]
Map(f) == [t |-> "map", m |-> f]
EmptyMap == Map(<<>>)

\* isinstance(v, dict)
IsDict(v) == v.t = "map"

\* bool(v)
Truthy(v) ==
  CASE v.t = "none" -> FALSE
    [] v.t = "str" -> v.v # ""
    [] v.t = "map" -> DOMAIN v.m # {}
    [] OTHER -> TRUE

\* a get that ignores its default: d.get(k)
GetOrNone(d, k, dflt) == IF k \in DOMAIN d.m THEN d.m[k] ELSE [t |-> "none"]

\* d.get(k, dflt) on a mapping
GetOr(d, k, dflt) == IF k \in DOMAIN d.m THEN d.m[k] ELSE dflt

\* d.get(k)
Get(d, k) == GetOr(d, k, None)

\* d[k] = val on a copy of the mapping d
Put(d, k, val) ==
  Map([x \in DOMAIN d.m \cup {k} |-> IF x = k THEN val ELSE d.m[x]])

\* ------------------------------------------------------- input paths
\* An input_path string is a sequence of tokens; "." is the separator token.
RECURSIVE SplitFrom(_, _, _)
SplitFrom(s, cur, acc) ==
  IF s = <<>> THEN Append(acc, cur)
  ELSE IF Head(s) = "." THEN SplitFrom(Tail(s), "", Append(acc, cur))
  ELSE SplitFrom(Tail(s), Head(s), acc)

\* input_path.split(".")
Split(s) == SplitFrom(s, "", <<>>)

\* input_path.startswith("previous.")
StartsWithPrevious(s) == Len(s) >= 2 /\ s[1] = "previous" /\ s[2] = "."

\* int(text): ok is FALSE where Python raises ValueError
ParseInt(text) ==
  IF \E n \in (0 - MaxIdx - 2)..(MaxIdx + 2) : ToString(n) = text
  THEN [ok |-> TRUE, v |-> CHOOSE n \in (0 - MaxIdx - 2)..(MaxIdx + 2) : ToString(n) = text]
  ELSE [ok |-> FALSE, v |-> 0]

\* lst[idx] with Python's negative indexing: ok is FALSE where it raises
\* IndexError
PyIndex(lst, idx) ==
  IF idx >= 0 /\ idx < Len(lst) THEN [ok |-> TRUE, v |-> lst[idx + 1]]
  ELSE IF idx < 0 /\ 0 - idx <= Len(lst) THEN [ok |-> TRUE, v |-> lst[Len(lst) + idx + 1]]
  ELSE [ok |-> FALSE, v |-> None]

\* step.get(k) on a step spec (a record with optional fields)
Has(step, k) == k \in DOMAIN step

\* a resolver that looks up only the last field of the path
WalkPathLastOnly(val, rest) ==
  IF rest = <<>> THEN val
  ELSE IF IsDict(val) THEN Get(val, rest[Len(rest)]) ELSE None

\* the loop "for p in rest" of _resolve_input
RECURSIVE WalkPath(_, _)
WalkPath(val, rest) ==
  IF rest = <<>> THEN val
  ELSE WalkPath(IF IsDict(val) THEN Get(val, Head(rest)) ELSE None, Tail(rest))

\* dict(step.get("input") or {})
BaseInput(step) ==
  IF Has(step, "input") /\ Truthy(step.input) THEN step.input ELSE EmptyMap

\* Orchestrator._resolve_input(step, job); results is job["result"]
ResolveInput(step, results) ==
  LET base == BaseInput(step) IN
  IF ~Has(step, "input_path") \/ step.input_path = <<>> THEN base
  ELSE IF ~StartsWithPrevious(step.input_path) THEN base
  ELSE
    LET parts == Split(step.input_path) IN
    IF ~(Len(parts) >= 5 /\ parts[2] = "steps" /\ parts[4] = "data") THEN base
    ELSE
      LET idx == ParseInt(parts[3])
          rest == SubSeq(parts, 5, Len(parts))
      IN
      IF ~idx.ok THEN base                       \* ValueError, caught
      ELSE IF ~(idx.v < Len(results)) THEN base  \* prev_result = None
      ELSE
        LET prev == PyIndex(results, idx.v) IN
        IF ~prev.ok THEN base                    \* IndexError, caught
        ELSE IF ~Truthy(prev.v) THEN base
        ELSE
          LET data == Get(prev.v, "data")
              val == IF Truthy(data) THEN data ELSE EmptyMap
          IN Put(base, "_from_previous", WalkPath(val, rest))

\* ------------------------------------------------------- agents
\* An agent instance is what hasattr / iscoroutinefunction see of it:
\* each of arun and run is "absent", "sync" or "async".
BrowserStub == [arun |-> "absent", run |-> "sync"]
SummarizerStub == [arun |-> "async", run |-> "absent"]
AsyncRunAgent == [arun |-> "absent", run |-> "async"]
BareAgent == [arun |-> "absent", run |-> "absent"]
\* every agent instance: any combination of the two entry points
AgentInstances == [arun : {"absent", "sync", "async"}, run : {"absent", "sync", "async"}]

\* the names register_agent is called with; "ghost" is never registered
AgentNames == {"browser"}

\* a dispatch that prefers run to arun
EntryPointRunFirst(agent) ==
  IF agent.run = "async" THEN "run"
  ELSE IF agent.run = "sync" THEN "run_in_executor"
  ELSE IF agent.arun = "async" THEN "arun"
  ELSE "none"

\* _invoke: the entry point the adapter uses for an agent instance
EntryPoint(agent) ==
  IF agent.arun = "async" THEN "arun"
  ELSE IF agent.run = "async" THEN "run"
  ELSE IF agent.run = "sync" THEN "run_in_executor"
  ELSE "none"

\* Agent Results
NotRegistered(name) ==
  Map([status |-> Str("failed"), error |-> [t |-> "fmt", v |-> <<"agent '", name, "' not registered">>]])
NoMethod == Map([status |-> Str("failed"), error |-> Str("agent has no run/arun method")])
TimeoutResult == Map([status |-> Str("failed"), error |-> Str("timeout")])
RaisedResult == Map([status |-> Str("failed"), error |-> Str("exc"), traceback |-> Str("tb")])

\* values an agent's entry point may return
SuccessData == Map([status |-> Str("success"), data |-> Map([x |-> Map([y |-> Str("v")])])])
SuccessBare == Map([status |-> Str("success")])
FailedResult == Map([status |-> Str("failed"), error |-> Str("boom")])
NoStatus == Map([error |-> Str("odd")])
AgentReturnValues == {SuccessData, SuccessBare, FailedResult, NoStatus, None}

\* ------------------------------------------------------- workflows
\* the tokens of ".f1.f2...": each field after a separator (an empty field
\* name writes nothing after its separator)
RECURSIVE Dotted(_)
Dotted(fs) ==
  IF fs = <<>> THEN <<>>
  ELSE (IF Head(fs) = "" THEN <<".">> ELSE <<".", Head(fs)>>) \o Dotted(Tail(fs))

\* the text "previous.steps.<i>.data.<f1>.<f2>..."
PathTo(i, fs) == <<"previous", ".", "steps", ".", ToString(i), ".", "data">> \o Dotted(fs)

\* a one-step workflow whose step has retry = k
OneStep(agent, k) == <<[agent |-> agent, retry |-> k]>>

\* a two-step workflow: the second step reads x.y of the first step's data
TwoSteps ==
  << [agent |-> "browser"],
     [name |-> "extract", agent |-> "browser", input |-> Map([q |-> Str("1")]),
      input_path |-> PathTo(0, <<"x", "y">>), timeout |-> 20] >>

\* a one-step workflow whose step names its own result in its input_path
SelfStep == <<[agent |-> "browser", retry |-> 1, input_path |-> PathTo(0, <<"x">>)]>>

\* the payloads start_workflow is called with: one carries an identifier of
\* the caller's, the others leave it to start_workflow
Payloads ==
  { [steps |-> OneStep("browser", k)] : k \in (0 - 1)..MaxRetry }
  \cup { [id |-> "a", steps |-> SelfStep],
         [steps |-> OneStep("ghost", MaxRetry)],
         [steps |-> TwoSteps],
         [steps |-> <<>>] }

\* ------------------------------------------------------- state
VARIABLES
  agents,   \* Orchestrator.agents: name -> agent instance
  jobs,     \* Orchestrator.jobs: job id -> job record (an index into recs)
  recs,     \* the job dicts created so far, in creation order
  tasks,    \* the background tasks; tasks[r] is the one created with recs[r]
  probe,    \* harness of the input resolver: its arguments and its result
  lock,     \* Orchestrator._lock: 0 while free, else the task holding it
  mgr       \* WorkflowManager.jobs: the job dicts in creation order

vars == <<agents, jobs, recs, tasks, probe, lock, mgr>>

\* str(uuid.uuid4()) of the r-th submission
Uuid(r) == ToString(<<"uuid", r>>)

\* name = step.get("name") or f"step_{step_idx}"
StepName(step, idx) ==
  IF Has(step, "name") /\ step.name # "" THEN step.name ELSE ToString(<<"step_", idx>>)

\* retries = int(step.get("retry", 1))
Retries(step) == IF Has(step, "retry") THEN step.retry ELSE 1

\* timeout = step.get("timeout"), as tested by "if timeout:"
HasTimeout(step) == Has(step, "timeout") /\ step.timeout # 0

\* 0.5 * (2 ** (attempt - 1)) seconds, in milliseconds
RECURSIVE Pow2(_)
Pow2(n) == IF n <= 0 THEN 1 ELSE 2 * Pow2(n - 1)
Backoff(attempt) == 500 * Pow2(attempt - 1)

\* now_ts(): a reading of the clock is later than every earlier reading, so a
\* timestamp field is modelled by the number of times it was written
\* (<<>> while the key is absent); the ts fields of log and history entries,
\* which nothing reads, are left out.
Stamp(old) == <<Len(old) + (IF old = <<>> THEN 1 ELSE old[1])>>

Log(level, msg) == [level |-> level, msg |-> msg]

\* A frame is what one run of a task between two suspension points works on:
\* j the job dict it holds, k its local variables, put whether it executed
\* self.jobs[job_id] = job.
StepsOf(F) == F.j.payload.steps
CurStep(F) == StepsOf(F)[F.k.idx + 1]

\* _execute_workflow lines 221-225
Finished(F) ==
  [F EXCEPT !.j.status = "finished",
            !.j.finished_at = Stamp(@),
            !.j.logs = Append(@, Log("info", [kind |-> "completed"])),
            !.k.pc = "done",
            !.put = TRUE]

\* a failure path that replaces the log by its error entry
FailedRewrites(F) ==
  [F EXCEPT !.j.status = "failed",
            !.j.finished_at = Stamp(@),
            !.j.logs = <<Log("error",
                 [kind |-> "workflow_failed", idx |-> F.k.idx,
                  name |-> IF Has(CurStep(F), "name") THEN CurStep(F).name ELSE "None"])>>,
            !.k.pc = "done",
            !.put = TRUE]

\* _execute_workflow lines 214-219
Failed(F) ==
  [F EXCEPT !.j.status = "failed",
            !.j.finished_at = Stamp(@),
            !.j.logs = Append(@, Log("error",
                 [kind |-> "workflow_failed", idx |-> F.k.idx,
                  name |-> IF Has(CurStep(F), "name") THEN CurStep(F).name ELSE "None"])),
            !.k.pc = "done",
            !.put = TRUE]

RECURSIVE StepReturned(_, _), RunStep(_), WhileHead(_), Attempt(_), AfterCall(_, _)

\* _execute_workflow lines 208-219: _run_step returned resp for step k.idx
StepReturned(F, resp) ==
  LET G == [F EXCEPT !.j.result = Append(@, Map([status |-> Get(resp, "status"), data |-> Get(resp, "data")]))]
  IN IF Get(resp, "status") # Str("success") THEN Failed(G)
     ELSE IF G.k.idx + 1 < Len(StepsOf(G)) THEN RunStep([G EXCEPT !.k.idx = @ + 1])
     ELSE Finished(G)

\* _run_step lines 130-136
RunStep(F) == WhileHead([F EXCEPT !.k.attempt = 0, !.k.last_err = None])

\* a retry loop that tests its condition after the first attempt only
WhileHeadAtLeastOnce(F) ==
  IF F.k.attempt = 0 \/ F.k.attempt < Retries(CurStep(F)) THEN Attempt(F)
  ELSE StepReturned(F, Map([status |-> Str("failed"), error |-> F.k.last_err]))

\* _run_step lines 138 and 173-174
WhileHead(F) ==
  IF F.k.attempt < Retries(CurStep(F)) THEN Attempt(F)
  ELSE StepReturned(F, Map([status |-> Str("failed"), error |-> F.k.last_err]))

\* _run_step lines 139-145 and _call_agent up to the point where it suspends.
\* An unregistered name and an agent without entry point give their result
\* without suspending (under a timeout asyncio.wait_for may pass through the
\* event loop first; the result is the same).
Attempt(F) ==
  LET step == CurStep(F)
      n == F.k.attempt + 1
      G == [F EXCEPT !.k.attempt = n,
                     !.j.logs = Append(@, Log("info",
                        [kind |-> "starting", name |-> StepName(step, F.k.idx),
                         agent |-> step.agent, attempt |-> n])),
                     !.k.payload = ResolveInput(step, F.j.result)]
  IN IF step.agent \notin DOMAIN agents THEN AfterCall(G, NotRegistered(step.agent))
     ELSE IF EntryPoint(agents[step.agent]) = "none" THEN AfterCall(G, NoMethod)
     ELSE [G EXCEPT !.k.pc = "calling", !.k.entry = EntryPoint(agents[step.agent])]

\* _run_step lines 147-171: _call_agent returned result
AfterCall(F, result) ==
  LET step == CurStep(F)
      name == StepName(step, F.k.idx)
      G == [F EXCEPT !.j.agent_history = Append(@,
                [name |-> name, agent |-> step.agent, attempt |-> F.k.attempt, result |-> result])]
  IN IF ~IsDict(result)
     THEN [G EXCEPT !.k.pc = "raised", !.k.entry = "none"]     \* result.get raises AttributeError at line 161
     ELSE
       LET H == [G EXCEPT !.j.logs = Append(@, Log("info",
                    [kind |-> "finished", name |-> name, attempt |-> F.k.attempt,
                     status |-> GetOr(result, "status", Str("unknown"))]))]
       IN IF Get(result, "status") = Str("success")
          THEN StepReturned([H EXCEPT !.k.entry = "none"], Map([status |-> Str("success"), data |-> GetOr(result, "data", result)]))
          ELSE [H EXCEPT !.k.last_err = result,
                         !.k.entry = "none",
                         !.j.logs = Append(@, Log("warning",
                            [kind |-> "attempt_failed", name |-> name, attempt |-> F.k.attempt,
                             error |-> Get(result, "error")])),
                         !.k.pc = "sleeping",
                         !.k.delay = Backoff(F.k.attempt)]

\* _execute_workflow lines 199-208: the task's first run
Execute(F) ==
  IF StepsOf(F) = <<>> THEN Finished(F) ELSE RunStep([F EXCEPT !.k.idx = 0])

\* ------------------------------------------------------- actions
NewTask(job_id) ==
  [pc |-> "scheduled", job_id |-> job_id, job |-> 0, idx |-> 0, attempt |-> 0,
   last_err |-> None, payload |-> None, entry |-> "none", delay |-> 0]

\* a task that keeps the lock it took for the fetch until its workflow ends
CommitHoldingLock(t, F) ==
  /\ lock \in {0, t}
  /\ lock' = IF F.k.pc \in {"calling", "sleeping"} THEN t ELSE 0
  /\ recs' = [recs EXCEPT ![F.k.job] = F.j]
  /\ tasks' = [tasks EXCEPT ![t] = F.k]
  /\ jobs' = IF F.put
             THEN [x \in DOMAIN jobs \cup {F.k.job_id} |-> IF x = F.k.job_id THEN F.k.job ELSE jobs[x]]
             ELSE jobs

\* the state after a task ran from one suspension point to the next. The run
\* takes the lock for the fetch (lines 201-202) and for the write-back (lines
\* 217-218, 224-225) and has released it when it suspends or ends.
Commit(t, F) ==
  /\ (tasks[t].pc = "scheduled" \/ F.put) => lock = 0
  /\ lock' = 0
  /\ recs' = [recs EXCEPT ![F.k.job] = F.j]
  /\ tasks' = [tasks EXCEPT ![t] = F.k]
  /\ jobs' = IF F.put
             THEN [x \in DOMAIN jobs \cup {F.k.job_id} |-> IF x = F.k.job_id THEN F.k.job ELSE jobs[x]]
             ELSE jobs

\* the frame of task t when it resumes
Frame(t) == [j |-> recs[tasks[t].job], k |-> tasks[t], put |-> FALSE]

\* Orchestrator.register_agent
register_agent(name, agent) ==
  /\ recs = <<>>      \* agents are registered before any workflow is submitted
  /\ agents' = [x \in DOMAIN agents \cup {name} |-> IF x = name THEN agent ELSE agents[x]]
  /\ UNCHANGED <<jobs, recs, tasks, probe, lock, mgr>>

\* a start_workflow that awaits _execute_workflow instead of scheduling it
start_workflowInline(payload) ==
  /\ Len(recs) < MaxJobs
  /\ lock = 0 /\ lock' = 0     \* async with self._lock (lines 192-193)
  /\ LET job_id == IF Has(payload, "id") /\ payload.id # "" THEN payload.id ELSE Uuid(Len(recs) + 1)
         job == [id |-> job_id, status |-> "running", submitted_at |-> Stamp(<<>>), payload |-> payload,
                 logs |-> <<>>, agent_history |-> <<>>, result |-> <<>>, finished_at |-> <<>>]
         F == Execute([j |-> job, k |-> [NewTask(job_id) EXCEPT !.job = Len(recs) + 1], put |-> FALSE])
     IN /\ recs' = Append(recs, F.j)
        /\ jobs' = [x \in DOMAIN jobs \cup {job_id} |-> IF x = job_id THEN Len(recs) + 1 ELSE jobs[x]]
        /\ tasks' = Append(tasks, F.k)
  /\ UNCHANGED <<agents, probe, mgr>>

\* Orchestrator.start_workflow: runs to its return without suspending
start_workflow(payload) ==
  /\ Len(recs) < MaxJobs
  /\ lock = 0 /\ lock' = 0     \* async with self._lock (lines 192-193)
  /\ LET job_id == IF Has(payload, "id") /\ payload.id # "" THEN payload.id ELSE Uuid(Len(recs) + 1)
         job == [id |-> job_id, status |-> "running", submitted_at |-> Stamp(<<>>), payload |-> payload,
                 logs |-> <<>>, agent_history |-> <<>>, result |-> <<>>, finished_at |-> <<>>]
     IN /\ recs' = Append(recs, job)
        /\ jobs' = [x \in DOMAIN jobs \cup {job_id} |-> IF x = job_id THEN Len(recs) + 1 ELSE jobs[x]]
        /\ tasks' = Append(tasks, NewTask(job_id))
  /\ UNCHANGED <<agents, probe, mgr>>

\* _execute_workflow: the event loop runs the task for the first time
TaskStart(t) ==
  /\ tasks[t].pc = "scheduled"
  /\ tasks[t].job_id \in DOMAIN jobs
  /\ LET r == jobs[tasks[t].job_id]
         F == [j |-> recs[r], k |-> [tasks[t] EXCEPT !.job = r], put |-> FALSE]
     IN Commit(t, Execute(F))
  /\ UNCHANGED <<agents, probe, mgr>>

\* the awaited entry point returns value
AgentReturns(t, value) ==
  /\ tasks[t].pc = "calling"
  /\ Commit(t, AfterCall(Frame(t), value))
  /\ UNCHANGED <<agents, probe, mgr>>

\* an _invoke without its try/except: the exception ends the task
AgentRaisesUncaught(t) ==
  /\ tasks[t].pc = "calling"
  /\ tasks' = [tasks EXCEPT ![t].pc = "raised", ![t].entry = "none"]
  /\ UNCHANGED <<agents, jobs, recs, probe, lock, mgr>>

\* the awaited entry point raises an exception (_invoke lines 107-109)
AgentRaises(t) ==
  /\ tasks[t].pc = "calling"
  /\ Commit(t, AfterCall(Frame(t), RaisedResult))
  /\ UNCHANGED <<agents, probe, mgr>>

\* asyncio.wait_for reaches the timeout (_call_agent line 113): it cancels the
\* invocation and waits until the invocation has ended
AgentTimesOut(t) ==
  /\ tasks[t].pc = "calling"
  /\ HasTimeout(recs[tasks[t].job].payload.steps[tasks[t].idx + 1])
  /\ tasks' = [tasks EXCEPT ![t].pc = "cancelling"]
  /\ UNCHANGED <<agents, jobs, recs, probe, lock, mgr>>

\* the cancelled invocation ends with CancelledError: wait_for raises
\* TimeoutError (_call_agent lines 114-115)
InvocationCancelled(t) ==
  /\ tasks[t].pc = "cancelling"
  /\ Commit(t, AfterCall(Frame(t), TimeoutResult))
  /\ UNCHANGED <<agents, probe, mgr>>

\* the cancelled invocation is a coroutine that catches CancelledError and
\* returns value: wait_for returns it (_call_agent line 113). A synchronous
\* run in the executor is awaited through a future, which is always cancelled.
CancelledInvocationReturns(t, value) ==
  /\ tasks[t].pc = "cancelling"
  /\ tasks[t].entry \in {"arun", "run"}
  /\ Commit(t, AfterCall(Frame(t), value))
  /\ UNCHANGED <<agents, probe, mgr>>

\* asyncio.sleep of the backoff returns (_run_step line 171, then line 138)
BackoffElapsed(t) ==
  /\ tasks[t].pc = "sleeping"
  /\ Commit(t, WhileHead(Frame(t)))
  /\ UNCHANGED <<agents, probe, mgr>>

Init ==
  /\ agents = <<>>
  /\ jobs = <<>>
  /\ recs = <<>>
  /\ tasks = <<>>
  /\ lock = 0
  /\ mgr = <<>>
  /\ probe = [phase |-> "idle"]

Next ==
  \/ \E name \in AgentNames, agent \in AgentInstances : register_agent(name, agent)
  \/ \E payload \in Payloads : start_workflow(payload)
  \/ \E t \in DOMAIN tasks : TaskStart(t)
  \/ \E t \in DOMAIN tasks, value \in AgentReturnValues : AgentReturns(t, value)
  \/ \E t \in DOMAIN tasks : AgentRaises(t)
  \/ \E t \in DOMAIN tasks : AgentTimesOut(t)
  \/ \E t \in DOMAIN tasks : InvocationCancelled(t)
  \/ \E t \in DOMAIN tasks, value \in AgentReturnValues : CancelledInvocationReturns(t, value)
  \/ \E t \in DOMAIN tasks : BackoffElapsed(t)

Spec == Init /\ [][Next]_vars

\* ------------------------------------------------------- input resolver alone
\* field paths and input_path texts _resolve_input is applied to
FieldPaths == {<<"x">>, <<"x", "y">>, <<"z">>, <<"x", "y", "z">>, <<"">>, <<>>}

ProbePaths ==
  { PathTo(i, fs) : i \in (0 - MaxIdx)..MaxIdx, fs \in FieldPaths }
  \cup { <<>>,
         <<"other">>,
         <<"previous">>,
         <<"previousX", ".", "steps", ".", "0", ".", "data", ".", "x">>,
         <<"previous", ".", "steps", ".", "q", ".", "data", ".", "x">>,
         <<"previous", ".", "stepz", ".", "0", ".", "data", ".", "x">>,
         <<"previous", ".", "steps", ".", "0", ".", "date", ".", "x">> }

ProbeSteps ==
  { [agent |-> "browser", input_path |-> p] : p \in ProbePaths }
  \cup { [agent |-> "browser", input |-> i, input_path |-> p] :
           i \in {Map([q |-> Str("1")]), EmptyMap}, p \in ProbePaths }
  \cup { [agent |-> "browser"], [agent |-> "browser", input |-> Map([q |-> Str("1")])] }

\* entries of job["result"] as _execute_workflow line 211 writes them
ProbeEntries ==
  { Map([status |-> Str("success"), data |-> d]) :
      d \in {Map([x |-> Map([y |-> Str("v")])]), Map([x |-> Str("flat")]), EmptyMap, Str("text")} }
  \cup { Map([status |-> Str("failed"), data |-> None]) }

ProbeResults == UNION { [1..n -> ProbeEntries] : n \in 0..MaxIdx }

InitResolve ==
  /\ agents = <<>>
  /\ jobs = <<>>
  /\ recs = <<>>
  /\ tasks = <<>>
  /\ lock = 0
  /\ mgr = <<>>
  /\ \E step \in ProbeSteps, results \in ProbeResults :
       probe = [phase |-> "args", step |-> step, results |-> results, out |-> None]

\* resolved_payload = self._resolve_input(step, job)
Resolve ==
  /\ probe.phase = "args"
  /\ probe' = [probe EXCEPT !.phase = "done", !.out = ResolveInput(probe.step, probe.results)]
  /\ UNCHANGED <<agents, jobs, recs, tasks, lock, mgr>>

NextResolve == Resolve

SpecResolve == InitResolve /\ [][NextResolve]_vars

\* ------------------------------------------------------- WorkflowManager
\* self._agents of the manager: the names it knows
ManagerAgents == {"browser"}

\* what a call of the registered agent's run does: it raises, or it returns
\* an Agent Result, whatever its status
Raises == [t |-> "raise"]
StubOutcomes == {SuccessData, FailedResult, NoStatus, Raises}

\* the steps and payloads the manager is given; a step may lack its agent
\* key, a payload its workflow key
ManagerSteps ==
  { [agent |-> "browser", input |-> Map([q |-> Str("1")])], [agent |-> "ghost"], [input |-> EmptyMap] }
ManagerPayloads ==
  { [workflow |-> w] : w \in UNION { [1..n -> ManagerSteps] : n \in 0..MaxSteps } }
  \cup { [metadata |-> "m"] }

\* steps = payload.get("workflow", [])
ManagerStepsOf(payload) == IF Has(payload, "workflow") THEN payload.workflow ELSE <<>>

\* agent_name = step.get("agent")
ManagerAgentName(step) == IF Has(step, "agent") THEN step.agent ELSE "None"

ManagerLog(key, msg) == [key |-> key, msg |-> msg]

\* lines 29-31 of a manager that goes on to the next step instead of leaving
\* the loop when it finds no agent
RECURSIVE ManagerLoopNoBreak(_, _, _, _)
ManagerLoopNoBreak(job, i, outcomes, step_results) ==
  LET steps == ManagerStepsOf(job.payload) IN
  IF i > Len(steps)
  THEN [job EXCEPT !.status = "finished", !.result = [t |-> "list", v |-> step_results]]
  ELSE
    LET name == ManagerAgentName(steps[i])
        started == [job EXCEPT !.logs = Append(@, ManagerLog("info", [kind |-> "starting", step |-> i, agent |-> name]))]
    IN IF name \notin ManagerAgents
       THEN ManagerLoopNoBreak(
              [started EXCEPT !.logs = Append(@, ManagerLog("error", [kind |-> "not_found", agent |-> name])),
                              !.status = "failed"],
              i + 1, outcomes, step_results)
       ELSE IF outcomes[i] = Raises
       THEN [started EXCEPT !.status = "failed",
                            !.logs = Append(@, ManagerLog("error", [kind |-> "exception"]))]
       ELSE ManagerLoopNoBreak(
              [started EXCEPT !.logs = Append(@, ManagerLog("info",
                 [kind |-> "result", step |-> i, status |-> Get(outcomes[i], "status")]))],
              i + 1, outcomes, Append(step_results, outcomes[i]))

\* WorkflowManager.start_workflow lines 20-41: the loop over the steps from
\* step i on, its else branch and the exception handler
RECURSIVE ManagerLoop(_, _, _, _)
ManagerLoop(job, i, outcomes, step_results) ==
  LET steps == ManagerStepsOf(job.payload) IN
  IF i > Len(steps)
  THEN [job EXCEPT !.status = "finished", !.result = [t |-> "list", v |-> step_results]]
  ELSE
    LET name == ManagerAgentName(steps[i])
        started == [job EXCEPT !.logs = Append(@, ManagerLog("info", [kind |-> "starting", step |-> i, agent |-> name]))]
    IN IF name \notin ManagerAgents
       THEN [started EXCEPT !.logs = Append(@, ManagerLog("error", [kind |-> "not_found", agent |-> name])),
                            !.status = "failed"]
       ELSE IF outcomes[i] = Raises
       THEN [started EXCEPT !.status = "failed",
                            !.logs = Append(@, ManagerLog("error", [kind |-> "exception"]))]
       ELSE ManagerLoop(
              [started EXCEPT !.logs = Append(@, ManagerLog("info",
                 [kind |-> "result", step |-> i, status |-> Get(outcomes[i], "status")]))],
              i + 1, outcomes, Append(step_results, outcomes[i]))

\* the manager is given a payload; outcomes[i] is what the agent does if it
\* is run for step i
InitManager ==
  /\ agents = <<>>
  /\ jobs = <<>>
  /\ recs = <<>>
  /\ tasks = <<>>
  /\ lock = 0
  /\ mgr = <<>>
  /\ \E payload \in ManagerPayloads, outcomes \in [1..MaxSteps -> StubOutcomes] :
       probe = [phase |-> "args", payload |-> payload, outcomes |-> outcomes, job |-> None]

\* WorkflowManager.start_workflow: synchronous, it returns the job at its end
WorkflowManager_start_workflow ==
  /\ probe.phase = "args"
  /\ LET job == ManagerLoop(
                  [id |-> Uuid(Len(mgr) + 1), status |-> "running", payload |-> probe.payload,
                   logs |-> <<>>, result |-> None],
                  1, probe.outcomes, <<>>)
     IN /\ mgr' = Append(mgr, job)
        /\ probe' = [probe EXCEPT !.phase = "done", !.job = job]
  /\ UNCHANGED <<agents, jobs, recs, tasks, lock>>

NextManager == WorkflowManager_start_workflow

SpecManager == InitManager /\ [][NextManager]_vars

\* ======================================================= properties
\* ------------------------------------------------------- vocabulary
Terminal(r) == recs[r].status \in {"finished", "failed"}
NSteps(r) == Len(recs[r].payload.steps)

\* a Step Outcome {status, data} recorded in the Result list is a success
IsSuccess(e) == e.t = "map" /\ "status" \in DOMAIN e.m /\ e.m["status"] = Str("success")

\* the tasks that hold job record r and write to it
Writers(r) == {t \in DOMAIN tasks : tasks[t].job = r}

\* some task still has work to do on job record r: it is suspended in a step of
\* r, or it is scheduled and will fetch r from the registry
Pending(r) ==
  \E t \in DOMAIN tasks :
    \/ tasks[t].job = r /\ tasks[t].pc \in {"calling", "cancelling", "sleeping"}
    \/ tasks[t].pc = "scheduled" /\ tasks[t].job_id \in DOMAIN jobs /\ jobs[tasks[t].job_id] = r

\* the Agent History entries of r that belong to step i
HistoryOf(r, i) ==
  LET h == recs[r].agent_history
      nm == StepName(recs[r].payload.steps[i + 1], i)
  IN {n \in 1..Len(h) : h[n].name = nm}

\* the log entries of r of one kind
LogsOf(r, kind) == {n \in 1..Len(recs[r].logs) : recs[r].logs[n].msg.kind = kind}

\* every step of r has produced a success outcome / some step has produced a
\* non-success outcome
AllSucceeded(r) ==
  /\ Len(recs[r].result) = NSteps(r)
  /\ \A n \in 1..Len(recs[r].result) : IsSuccess(recs[r].result[n])
SomeFailed(r) == \E n \in 1..Len(recs[r].result) : ~IsSuccess(recs[r].result[n])

\* ------------------------------------------------------- C8
\* the field path fs exists in the mapping d / the value it leads to
RECURSIVE HasPath(_, _), Project(_, _)
HasPath(d, fs) ==
  fs = <<>> \/ (d.t = "map" /\ Head(fs) \in DOMAIN d.m /\ HasPath(d.m[Head(fs)], Tail(fs)))
Project(d, fs) == IF fs = <<>> THEN d ELSE Project(d.m[Head(fs)], Tail(fs))

\* the step's literal input, or an empty mapping
LiteralInput(step) == IF "input" \in DOMAIN step THEN step.input ELSE EmptyMap

\* the probed input_path names field path fs of the completed step j, and fs
\* exists in the data recorded for that step
ProbeHit(j, fs) ==
  /\ fs # <<>>
  /\ "input_path" \in DOMAIN probe.step
  /\ probe.step.input_path = PathTo(j, fs)
  /\ j < Len(probe.results)
  /\ HasPath(probe.results[j + 1].m["data"], fs)

\* C8: for an input_path previous.steps.<j>.data.<f1>...<fn> whose step j is
\* completed and whose field path exists in the recorded data, _resolve_input
\* returns the literal input (or an empty mapping) extended with
\* _from_previous bound to the value reached by walking data through f1..fn.
C8_ProjectsPrevious ==
  probe.phase = "done" =>
    \A j \in 0..MaxIdx, fs \in FieldPaths :
      ProbeHit(j, fs) =>
        LET lit == LiteralInput(probe.step) IN
        /\ probe.out.t = "map"
        /\ DOMAIN probe.out.m = DOMAIN lit.m \cup {"_from_previous"}
        /\ probe.out.m["_from_previous"] = Project(probe.results[j + 1].m["data"], fs)
        /\ \A k \in DOMAIN lit.m : probe.out.m[k] = lit.m[k]

\* witness of C8: the nested field x.y of the second completed step was
\* projected into a payload that also carries the literal input
C8_Witness ==
  /\ probe.phase = "done"
  /\ ProbeHit(1, <<"x", "y">>)
  /\ "input" \in DOMAIN probe.step
  /\ probe.out = Map([q |-> Str("1"), _from_previous |-> Str("v")])

\* ------------------------------------------------------- C9
\* C9 (as claimed): whenever the resolution misses (index out of range or not
\* a non-negative integer, data absent, field missing, intermediate value not
\* a mapping, or another shape of input_path), the returned payload is the one
\* built from the literal input only, without the key _from_previous.
C9_MissLeavesPayload ==
  (probe.phase = "done" /\ ~(\E j \in 0..MaxIdx, fs \in FieldPaths : ProbeHit(j, fs)))
    => probe.out = LiteralInput(probe.step)

\* ------------------------------------------------------- C1
\* the step a task suspended in r is running was started no later than the
\* first step of r that produced a non-success outcome
NoLaterStep(r) ==
  \A t \in Writers(r) :
    tasks[t].pc \in {"calling", "cancelling", "sleeping"} =>
      \E n \in 1..Len(recs[r].result) :
        ~IsSuccess(recs[r].result[n]) /\ tasks[t].idx <= n - 1

\* C1 (as claimed): a job is running exactly as long as neither every step
\* has produced a success outcome nor some step a non-success outcome; it is
\* finished only if all steps produced success, and failed only if a
\* non-success outcome occurred, after which no later step is run.
C1_StatusFollowsOutcomes ==
  \A r \in DOMAIN recs :
    NSteps(r) >= 1 =>
      /\ recs[r].status = "running" <=> (~AllSucceeded(r) /\ ~SomeFailed(r))
      /\ recs[r].status = "finished" => AllSucceeded(r)
      /\ recs[r].status = "failed" => (SomeFailed(r) /\ NoLaterStep(r))

\* ------------------------------------------------------- C2
\* every step of r has a retry value the data model allows (a positive integer)
ValidRetries(r) ==
  \A i \in 1..NSteps(r) : Retries(recs[r].payload.steps[i]) >= 1

\* every agent invocation recorded for r returned status success
AllInvocationsSucceeded(r) ==
  \A n \in 1..Len(recs[r].agent_history) : IsSuccess(recs[r].agent_history[n].result)

\* C2 (as claimed): a workflow of N steps whose agents return success on
\* every invocation ends finished, with N results, one Agent History entry
\* per step (attempt 1) and no backoff sleep.
C2_AllSuccessFinishes ==
  \A r \in DOMAIN recs :
    (ValidRetries(r) /\ AllInvocationsSucceeded(r) /\ ~Pending(r)) =>
      /\ recs[r].status = "finished"
      /\ Len(recs[r].result) = NSteps(r)
      /\ \A i \in 0..(NSteps(r) - 1) :
           /\ Cardinality(HistoryOf(r, i)) = 1
           /\ \A n \in HistoryOf(r, i) : recs[r].agent_history[n].attempt = 1
      /\ LogsOf(r, "attempt_failed") = {}

\* ------------------------------------------------------- C3
\* step i of r was invoked, every invocation of it failed, and every earlier
\* step succeeded
StepAlwaysFailed(r, i) ==
  /\ HistoryOf(r, i) # {}
  /\ \A n \in HistoryOf(r, i) : ~IsSuccess(recs[r].agent_history[n].result)
  /\ \A e \in 0..(i - 1) :
       /\ HistoryOf(r, e) # {}
       /\ \A n \in HistoryOf(r, e) : IsSuccess(recs[r].agent_history[n].result)

\* C3 (as claimed): when the agent of step i (retry = k >= 1) fails on every
\* invocation and the earlier steps succeed, the Agent History has exactly k
\* entries for the step, the job ends failed, the Result list has length
\* i + 1 with a last entry {failed, None}, and no later step is invoked.
C3_ExhaustedRetriesFail ==
  \A r \in DOMAIN recs : \A i \in 0..(NSteps(r) - 1) :
    LET k == Retries(recs[r].payload.steps[i + 1]) IN
    (k >= 1 /\ StepAlwaysFailed(r, i) /\ ~Pending(r)) =>
      /\ Cardinality(HistoryOf(r, i)) = k
      /\ recs[r].status = "failed"
      /\ Len(recs[r].result) = i + 1
      /\ recs[r].result[Len(recs[r].result)] = Map([status |-> Str("failed"), data |-> None])
      /\ \A e \in (i + 1)..(NSteps(r) - 1) : HistoryOf(r, e) = {}

\* ------------------------------------------------------- C4
\* C4 (as claimed): every job record returned by start_workflow reaches a
\* terminal status; stated so that a finite run refutes it: a job record that
\* is not terminal still has a task with work to do on it.
C4_EveryJobTerminates ==
  \A r \in DOMAIN recs : Terminal(r) \/ Pending(r)

\* ------------------------------------------------------- C5
\* C5 (as claimed): _run_step never raises, whatever value the agent
\* invocation returns; a non-mapping or status-less value is a failed attempt
\* that is retried or exhausted, and the job is then marked failed.
C5_RunStepNeverRaises ==
  /\ \A t \in DOMAIN tasks : tasks[t].pc # "raised"
  /\ \A r \in DOMAIN recs :
       (~Pending(r) /\ \E n \in 1..Len(recs[r].agent_history) :
                          ~IsDict(recs[r].agent_history[n].result))
         => recs[r].status = "failed"

\* ------------------------------------------------------- C6
\* C6 (as claimed): each job record is written by at most one execution flow
\* and at most one step attempt of a job record is in flight at any time.
C6_SingleWriter ==
  \A r \in DOMAIN recs :
    /\ Cardinality(Writers(r)) <= 1
    /\ Cardinality({t \in Writers(r) : tasks[t].pc \in {"calling", "cancelling"}}) <= 1

\* ------------------------------------------------------- C7
\* C7 (as claimed): the executor sleeps 0.5 * 2^(attempt-1) seconds after a
\* failed attempt only when another attempt is permitted; after the failed
\* attempt number retry it returns the outcome without sleeping.
C7_NoSleepAfterLastAttempt ==
  \A t \in DOMAIN tasks :
    tasks[t].pc = "sleeping" =>
      /\ tasks[t].delay = 500 * (2 ^ (tasks[t].attempt - 1))
      /\ tasks[t].attempt < Retries(recs[tasks[t].job].payload.steps[tasks[t].idx + 1])

\* ------------------------------------------------------- C10
\* the Agent Result of an invocation of the unregistered agent name
NotRegisteredError(name) ==
  [t |-> "map",
   m |-> [status |-> [t |-> "str", v |-> "failed"],
          error |-> [t |-> "fmt", v |-> <<"agent '", name, "' not registered">>]]]

\* C10 (as claimed): a step naming an unregistered agent gets the result
\* {failed, "agent '<name>' not registered"} on every attempt without any
\* agent being invoked, is attempted exactly retry times and never more, and
\* the job ends failed with the error naming the agent.
C10_UnregisteredAgentFails ==
  \A r \in DOMAIN recs : \A i \in 0..(NSteps(r) - 1) :
    LET step == recs[r].payload.steps[i + 1]
        k == Retries(step)
        h == recs[r].agent_history
    IN (k >= 1 /\ step.agent \notin DOMAIN agents) =>
         /\ \A n \in HistoryOf(r, i) : h[n].result = NotRegisteredError(step.agent)
         /\ \A t \in Writers(r) : tasks[t].idx = i => tasks[t].pc # "calling"
         /\ Cardinality(HistoryOf(r, i)) <= k
         /\ (HistoryOf(r, i) # {} /\ ~Pending(r)) =>
              /\ Cardinality(HistoryOf(r, i)) = k
              /\ recs[r].status = "failed"
              /\ \A n \in LogsOf(r, "attempt_failed") :
                   recs[r].logs[n].msg.error = NotRegisteredError(step.agent).m["error"]

\* ------------------------------------------------------- C11
\* C11 (as claimed): when an invocation under a timeout does not complete in
\* time, the attempt ends with the Agent Result {failed, "timeout"}: that
\* result, and no value of the cancelled invocation, is what the Agent History
\* records for the attempt, which is then handled as a failed attempt.
C11_TimeoutEndsAttempt ==
  [][\A t \in DOMAIN tasks :
       (tasks[t].pc = "cancelling" /\ tasks'[t] # tasks[t]) =>
         LET h == recs[tasks[t].job].agent_history
             h2 == recs'[tasks[t].job].agent_history
         IN /\ Len(h2) = Len(h) + 1
            /\ h2[Len(h2)].attempt = tasks[t].attempt
            /\ h2[Len(h2)].result = TimeoutResult
            /\ tasks'[t].pc = "sleeping"]_vars

\* ------------------------------------------------------- C12
\* C12: at the moment start_workflow returns, the new job record is
\* registered under its identifier (the caller's if the payload carries one,
\* a fresh one otherwise), its status is running, its logs, agent_history and
\* result are empty, its execution is only scheduled, and no other job record
\* or task has moved: no agent was invoked before the return.
C12_ReturnsAtOnce ==
  [][Len(recs') = Len(recs) + 1 =>
       LET r == Len(recs')
           job == recs'[r]
       IN /\ job.status = "running"
          /\ job.logs = <<>> /\ job.agent_history = <<>> /\ job.result = <<>>
          /\ job.id \in DOMAIN jobs' /\ jobs'[job.id] = r
          /\ ("id" \in DOMAIN job.payload => job.id = job.payload.id)
          /\ ("id" \notin DOMAIN job.payload => \A q \in DOMAIN recs : recs[q].id # job.id)
          /\ tasks'[r].pc = "scheduled"
          /\ \A t \in DOMAIN tasks : tasks'[t] = tasks[t]
          /\ \A q \in DOMAIN recs : recs'[q] = recs[q]]_vars

\* witness of C12: start_workflow has just returned the record of identifier
\* "a" while an earlier job is in the middle of an agent invocation
C12_Witness ==
  /\ Len(recs) = 2
  /\ recs[2].id = "a" /\ recs[2].status = "running"
  /\ recs[2].logs = <<>> /\ recs[2].agent_history = <<>> /\ recs[2].result = <<>>
  /\ jobs["a"] = 2
  /\ tasks[2].pc = "scheduled"
  /\ tasks[1].pc = "calling" /\ tasks[1].job = 1

\* ------------------------------------------------------- C13
\* C13 (as claimed): in every state the length of the Result list of a job
\* equals the number of steps whose Step Executor run has returned (the index
\* of the step a flow is running, or that index plus one once the flow has
\* ended) and never exceeds the number of steps of the workflow.
C13_ResultCountsSteps ==
  \A r \in DOMAIN recs :
    /\ Len(recs[r].result) <= NSteps(r)
    /\ Writers(r) = {} => recs[r].result = <<>>
    /\ \A t \in Writers(r) :
         /\ tasks[t].pc \in {"calling", "cancelling", "sleeping", "raised"}
              => Len(recs[r].result) = tasks[t].idx
         /\ (tasks[t].pc = "done" /\ NSteps(r) >= 1)
              => Len(recs[r].result) = tasks[t].idx + 1

\* ------------------------------------------------------- C14
\* the index of the step the n-th Agent History entry of r belongs to
StepOfEntry(r, n) ==
  CHOOSE i \in 0..(NSteps(r) - 1) :
    StepName(recs[r].payload.steps[i + 1], i) = recs[r].agent_history[n].name

\* C14 (as claimed): the Agent History of a job is grouped by step in step
\* order; within a step the attempt numbers are 1, 2, 3, ... without gap or
\* repeat and never exceed the step's retry value; the numbering restarts at 1
\* for each step.
C14_AttemptsInOrder ==
  \A r \in DOMAIN recs :
    LET h == recs[r].agent_history IN
    \A n \in 1..Len(h) :
      /\ h[n].attempt >= 1
      /\ h[n].attempt <= Retries(recs[r].payload.steps[StepOfEntry(r, n) + 1])
      /\ n = 1 => h[n].attempt = 1
      /\ n > 1 =>
           \/ StepOfEntry(r, n) = StepOfEntry(r, n - 1) /\ h[n].attempt = h[n - 1].attempt + 1
           \/ StepOfEntry(r, n) > StepOfEntry(r, n - 1) /\ h[n].attempt = 1

\* ------------------------------------------------------- C15
\* get_job(job_id): the job record the registry holds for the identifier
get_job(job_id) == IF job_id \in DOMAIN jobs THEN jobs[job_id] ELSE 0

\* the job record created by the latest submission under an identifier
LatestSubmission(job_id) ==
  CHOOSE r \in DOMAIN recs :
    recs[r].id = job_id /\ \A q \in DOMAIN recs : recs[q].id = job_id => q <= r

\* C15 (as claimed): after a submission under an identifier that is already
\* in the registry, get_job(id) returns the newly submitted job record, and
\* keeps doing so whatever the earlier job of that identifier does, until the
\* next submission under the identifier.
C15_RegistryHoldsLatest ==
  \A r \in DOMAIN recs : get_job(recs[r].id) = LatestSubmission(recs[r].id)

\* ------------------------------------------------------- C16
\* the index of the step job record r failed at: the first step whose Step
\* Outcome is not a success
FailedStep(r) ==
  CHOOSE i \in 0..(Len(recs[r].result) - 1) :
    /\ ~IsSuccess(recs[r].result[i + 1])
    /\ \A e \in 0..(i - 1) : IsSuccess(recs[r].result[e + 1])

\* the position of the last Agent History entry of step i of r
LastEntryOf(r, i) == CHOOSE n \in HistoryOf(r, i) : \A q \in HistoryOf(r, i) : q <= n

\* C16 (as claimed): whenever a job has status failed, its log has an error
\* entry naming the index of the failing step and that step's name (the
\* declared one, or step_<index>, as in the Agent History), its Agent History
\* holds every attempt of the failing step, and the last of these entries
\* carries a failed Agent Result with its error detail.
C16_FailureIsDiagnosable ==
  \A r \in DOMAIN recs :
    recs[r].status = "failed" =>
      LET i == FailedStep(r)
          step == recs[r].payload.steps[i + 1]
          h == recs[r].agent_history
      IN /\ \E e \in LogsOf(r, "workflow_failed") :
              /\ recs[r].logs[e].level = "error"
              /\ recs[r].logs[e].msg.idx = i
              /\ recs[r].logs[e].msg.name = StepName(step, i)
         /\ Retries(step) >= 1 =>
              /\ \A a \in 1..Retries(step) : \E n \in HistoryOf(r, i) : h[n].attempt = a
              /\ ~IsSuccess(h[LastEntryOf(r, i)].result)
              /\ IsDict(h[LastEntryOf(r, i)].result)
              /\ "error" \in DOMAIN h[LastEntryOf(r, i)].result.m

\* ------------------------------------------------------- C17
\* the Agent History entries of r whose step names the agent of that name
EntriesOfAgent(r, name) ==
  {n \in 1..Len(recs[r].agent_history) : recs[r].agent_history[n].agent = name}

\* C17: for a registered agent the invocation in flight uses one entry point,
\* chosen by priority: an asynchronous arun if the agent has one; otherwise
\* an asynchronous run; otherwise a synchronous run, in a worker; an agent
\* with none of these is never invoked and every attempt on it has the result
\* {failed, "agent has no run/arun method"}.
C17_DispatchPriority ==
  /\ \A t \in DOMAIN tasks :
       tasks[t].pc \in {"calling", "cancelling"} =>
         LET a == agents[recs[tasks[t].job].payload.steps[tasks[t].idx + 1].agent] IN
         /\ a.arun = "async" => tasks[t].entry = "arun"
         /\ (a.arun # "async" /\ a.run = "async") => tasks[t].entry = "run"
         /\ (a.arun # "async" /\ a.run = "sync") => tasks[t].entry = "run_in_executor"
         /\ ~(a.arun # "async" /\ a.run = "absent")
  /\ \A name \in DOMAIN agents :
       (agents[name].arun # "async" /\ agents[name].run = "absent") =>
         \A r \in DOMAIN recs : \A n \in EntriesOfAgent(r, name) :
           recs[r].agent_history[n].result =
             [t |-> "map", m |-> [status |-> [t |-> "str", v |-> "failed"],
                                  error |-> [t |-> "str", v |-> "agent has no run/arun method"]]]

\* witness of C17: an agent with an asynchronous arun and a synchronous run is
\* being invoked through arun by two jobs at the same time
C17_Witness ==
  /\ "browser" \in DOMAIN agents
  /\ agents["browser"] = [arun |-> "async", run |-> "sync"]
  /\ Len(tasks) = 2
  /\ tasks[1].pc = "calling" /\ tasks[1].entry = "arun"
  /\ tasks[2].pc = "calling" /\ tasks[2].entry = "arun"
  /\ tasks[1].job # tasks[2].job

C19_SuccessStopsStep ==
  [][\A t \in DOMAIN tasks, value \in AgentReturnValues :
       AgentReturns(t, value) =>
         LET r == tasks[t].job
             h == recs[r].agent_history
             h2 == recs'[r].agent_history
             res == recs[r].result
             res2 == recs'[r].result
         IN IF value.t = "map" /\ "status" \in DOMAIN value.m
                 /\ value.m["status"] = [t |-> "str", v |-> "success"]
            THEN /\ Len(res2) = Len(res) + 1
                 /\ \A n \in 1..Len(res) : res2[n] = res[n]
                 /\ res2[Len(res2)] =
                      [t |-> "map",
                       m |-> [status |-> [t |-> "str", v |-> "success"],
                              data |-> IF "data" \in DOMAIN value.m THEN value.m["data"] ELSE value]]
                 /\ tasks'[t].pc # "sleeping"
                 /\ tasks'[t].pc = "done" \/ tasks'[t].idx = tasks[t].idx + 1
                 /\ \A n \in (Len(h) + 2)..Len(h2) : h2[n].name # h2[Len(h) + 1].name
            ELSE /\ res2 = res
                 /\ tasks'[t].pc \in {"sleeping", "raised"}
                 /\ tasks'[t].idx = tasks[t].idx]_vars

\* witness of C19: a step with retry = 2 succeeded on its first attempt with
\* an Agent Result without data key; the whole result is its recorded data
C19_Witness ==
  \E r \in DOMAIN recs :
    /\ NSteps(r) = 1 /\ Retries(recs[r].payload.steps[1]) = 2
    /\ recs[r].status = "finished"
    /\ Len(recs[r].agent_history) = 1
    /\ recs[r].result =
         <<[t |-> "map", m |-> [status |-> [t |-> "str", v |-> "success"],
                                data |-> [t |-> "map", m |-> [status |-> [t |-> "str", v |-> "success"]]]]]>>

\* ------------------------------------------------------- C20
\* sequence a is a prefix of sequence b
IsPrefix(a, b) == Len(a) <= Len(b) /\ \A n \in 1..Len(a) : b[n] = a[n]

\* C20: the log, the Agent History and the Result list of a job record are
\* append-only: in every step of every execution each of the three sequences
\* of the earlier state is a prefix of the one of the later state.
C20_AppendOnly ==
  [][\A r \in DOMAIN recs :
       /\ IsPrefix(recs[r].logs, recs'[r].logs)
       /\ IsPrefix(recs[r].agent_history, recs'[r].agent_history)
       /\ IsPrefix(recs[r].result, recs'[r].result)]_vars

\* witness of C20: a failed job record whose log, Agent History and Result
\* list were written by several steps of the execution, after a retry
C20_Witness ==
  \E r \in DOMAIN recs :
    /\ recs[r].status = "failed"
    /\ Len(recs[r].logs) >= 7
    /\ Len(recs[r].agent_history) >= 2
    /\ Len(recs[r].result) >= 1

\* ------------------------------------------------------- C21
\* the position in the Result list that index j of an input_path designates
\* in a list of n entries (a negative j counts from the end)
Designated(j, n) == IF j >= 0 THEN j ELSE n + j

\* C21 (as claimed): when _resolve_input resolves for step i it reads only
\* Result entries of steps that have completed before it (index < i): a
\* payload that carries _from_previous was resolved from an input_path whose
\* index designates an earlier step, never step i itself or a later one.
C21_ReadsOnlyEarlierSteps ==
  \A t \in DOMAIN tasks :
    (tasks[t].payload.t = "map" /\ "_from_previous" \in DOMAIN tasks[t].payload.m) =>
      LET step == recs[tasks[t].job].payload.steps[tasks[t].idx + 1]
          j == ParseInt(Split(step.input_path)[3]).v
      IN /\ Designated(j, tasks[t].idx) >= 0
         /\ Designated(j, tasks[t].idx) < tasks[t].idx

\* ------------------------------------------------------- C22
\* C22 (as claimed): terminal states are stable: once the status of a job
\* record is finished or failed, its status, finished_at, Result list, Agent
\* History and log never change again, whatever is submitted and however the
\* background executions interleave.
C22_TerminalIsStable ==
  [][\A r \in DOMAIN recs :
       Terminal(r) =>
         /\ recs'[r].status = recs[r].status
         /\ recs'[r].finished_at = recs[r].finished_at
         /\ recs'[r].result = recs[r].result
         /\ recs'[r].agent_history = recs[r].agent_history
         /\ recs'[r].logs = recs[r].logs]_vars

\* ------------------------------------------------------- C23
\* C23: the registry lock is never held across a suspension point: it is
\* free in every state between two runs of the flows, so no flow waits for it
\* for ever, and while an agent invocation of one job is in flight a further
\* workflow can be submitted and every other task can take its next step.
C23_LockNeverHeldAcrossAwait ==
  /\ lock = 0
  /\ \A t \in DOMAIN tasks :
       tasks[t].pc \in {"calling", "cancelling"} =>
         /\ Len(recs) < MaxJobs => ENABLED (\E payload \in Payloads : start_workflow(payload))
         /\ \A u \in DOMAIN tasks \ {t} :
              /\ (tasks[u].pc = "scheduled" /\ tasks[u].job_id \in DOMAIN jobs) => ENABLED TaskStart(u)
              /\ tasks[u].pc = "sleeping" => ENABLED BackoffElapsed(u)
              /\ tasks[u].pc = "calling" => ENABLED (\E value \in AgentReturnValues : AgentReturns(u, value))

\* witness of C23: while the agent invocation of the first job is still in
\* flight, a second job was submitted, run and finished
C23_Witness ==
  /\ Len(tasks) = 2
  /\ tasks[1].pc = "calling" /\ tasks[1].job = 1
  /\ tasks[2].pc = "done" /\ tasks[2].job = 2
  /\ recs[2].status = "finished" /\ recs[1].status = "running"
  /\ lock = 0

\* ------------------------------------------------------- C24
\* the log entries of r that the step executor wrote for the step of that name
StepLogsOf(r, name) ==
  {n \in 1..Len(recs[r].logs) :
     /\ recs[r].logs[n].msg.kind \in {"starting", "finished", "attempt_failed"}
     /\ recs[r].logs[n].msg.name = name}

\* C24: a step whose retry value is 0 or negative makes no attempt: no agent
\* is invoked for it, it gets no Agent History entry and no log entry of the
\* step executor, its outcome is recorded as {failed, data None} and the job
\* is failed at that step.
C24_NoAttemptWithoutBudget ==
  \A r \in DOMAIN recs : \A i \in 0..(NSteps(r) - 1) :
    LET step == recs[r].payload.steps[i + 1] IN
    Retries(step) <= 0 =>
      /\ HistoryOf(r, i) = {}
      /\ StepLogsOf(r, StepName(step, i)) = {}
      /\ \A t \in Writers(r) :
           tasks[t].idx = i => (tasks[t].pc = "done" /\ tasks[t].attempt = 0)
      /\ Len(recs[r].result) >= i + 1 =>
           /\ recs[r].result[i + 1] =
                [t |-> "map", m |-> [status |-> [t |-> "str", v |-> "failed"], data |-> [t |-> "none"]]]
           /\ recs[r].status = "failed"
           /\ \E e \in LogsOf(r, "workflow_failed") : recs[r].logs[e].msg.idx = i
      /\ (Writers(r) # {} /\ \A e \in 0..(i - 1) : IsSuccess(recs[r].result[e + 1]))
           => Len(recs[r].result) >= i + 1

\* witness of C24: a job whose only step has retry = -1 has failed without
\* any attempt, while an agent is registered under the step's agent name
C24_Witness ==
  \E r \in DOMAIN recs :
    /\ recs[r].payload.steps = <<[agent |-> "browser", retry |-> 0 - 1]>>
    /\ "browser" \in DOMAIN agents
    /\ recs[r].status = "failed"
    /\ recs[r].agent_history = <<>>
    /\ Len(recs[r].logs) = 1
    /\ Len(recs[r].result) = 1

\* ------------------------------------------------------- C25
\* step i of the probed payload names no registered agent, or the agent
\* raises when it is run for it
ManagerBad(i) ==
  \/ "agent" \notin DOMAIN ManagerStepsOf(probe.payload)[i]
  \/ ManagerStepsOf(probe.payload)[i].agent \notin ManagerAgents
  \/ probe.outcomes[i] = [t |-> "raise"]

\* the steps for which the returned job has a log entry of that kind
ManagerLogged(kind) ==
  {probe.job.logs[n].msg.step : n \in {q \in 1..Len(probe.job.logs) : probe.job.logs[q].msg.kind = kind}}

\* C25: the job WorkflowManager.start_workflow returns is never running. It
\* is finished, with result the list of all step results in order, exactly
\* when every step names a registered agent and no agent raises, whatever
\* status the results report; otherwise it is failed, its result stays None,
\* and no step after the first unregistered or raising one is run.
C25_ManagerReturnsTerminal ==
  probe.phase = "done" =>
    LET steps == ManagerStepsOf(probe.payload)
        job == probe.job
        ok == \A i \in 1..Len(steps) : ~ManagerBad(i)
    IN /\ job.status \in {"finished", "failed"}
       /\ mgr[Len(mgr)] = job
       /\ job.status = "finished" <=> ok
       /\ ok => /\ job.result = [t |-> "list", v |-> [i \in 1..Len(steps) |-> probe.outcomes[i]]]
                /\ ManagerLogged("starting") = 1..Len(steps)
       /\ ~ok => LET b == CHOOSE i \in 1..Len(steps) : ManagerBad(i) /\ \A e \in 1..(i - 1) : ~ManagerBad(e)
                 IN /\ job.result = [t |-> "none"]
                    /\ ManagerLogged("starting") = 1..b
                    /\ ManagerLogged("result") = 1..(b - 1)

\* witness of C25: the first step ran and reported failed, the second names
\* an agent the manager does not know: the job is failed without result
C25_Witness ==
  /\ probe.phase = "done"
  /\ probe.payload = [workflow |-> <<[agent |-> "browser", input |-> [t |-> "map", m |-> [q |-> [t |-> "str", v |-> "1"]]]],
                                     [agent |-> "ghost"]>>]
  /\ probe.outcomes[1] = FailedResult
  /\ probe.job.status = "failed"
  /\ Len(probe.job.logs) = 4

====
